---- MODULE Spec2Model ----
(***************************************************************************)
(* The project tracker of kujtimprenku/drag-and-drop: the observable store *)
(* (src/src/state/project-state.ts), the list views that subscribe to it   *)
(* and act as drop targets (src/src/components/project-list.ts), the item  *)
(* views that act as drag sources (project-item.ts), the browser's drag    *)
(* sequence that connects them, and the input form with its validation     *)
(* (src/src/app.ts).                                                       *)
(*                                                                         *)
(* Project objects live in `heap` and are addressed by reference (their    *)
(* index), because the store's array, every snapshot and every list view   *)
(* share the same Project objects: slice() and filter() copy references.   *)
(***************************************************************************)
EXTENDS Integers, Sequences, FiniteSets, TLC

\* ---------------------------------------------------------------- bounds
MaxProjects == 2
MaxListeners == 2
MaxInstances == 2

\* ------------------------------------------------------- program constants
\* enum ProjectStatus { ACTIVE, FINISHED }: a numeric enum.
ACTIVE == 0
FINISHED == 1
ProjectStatus == {ACTIVE, FINISHED}

\* The two list views the application constructs.
ListTypes == {"active", "finished"}

\* ------------------------------------------------------------ input sets
\* Math.random().toString(): any of these may be drawn, also twice.
Ids == {"0.1", "0.2"}
\* An id no addProject call draws, for lookups that miss.
AbsentId == "0.9"
\* (title, description, numOfPeople) as the form hands them to addProject.
Inputs == { <<"A", "Desc one", 1>>, <<"B", "Desc two", 3>> }
\* What a user enters in the form: a title, an empty and a blank one; a
\* description and a short one; people counts inside and outside the
\* range, none, and a fraction.
Titles == {"A", "", "  "}
Descriptions == {"Desc one", "Desc"}
PeopleTexts == {"1", "6", "0", "", "2.5"}

\* The constraints gatherUserInput passes to validate.
MinDescription == 5
MinPeople == 1
MaxPeople == 5

\* Drags that start outside the application: a file, a link, selected text.
\* Each is the DataTransfer's item list: (type, data) in declaration order.
ForeignPayloads ==
  { <<[type |-> "Files", data |-> ""]>>,
    <<[type |-> "text/uri-list", data |-> "http://a/"],
      [type |-> "text/plain", data |-> "http://a/"]>>,
    <<[type |-> "text/plain", data |-> "hello"],
      [type |-> "text/html", data |-> "<b>hello</b>"]>> }

VARIABLES
  heap,        \* the Project objects: reference -> fields
  projects,    \* ProjectState.projects: array of references
  listeners,   \* State.listeners: array of callbacks (named by their view)
  lists,       \* the constructed ProjectList views, by type
  drag,        \* the browser's drag operation and its DataTransfer
  notified,    \* the listener calls of the latest operation, in order
  last,        \* the latest operation and the moveProject calls it made
  addCalls,    \* number of addProject calls so far
  registered,  \* the callbacks handed to addListener so far, in call order
  retained,    \* the array a listener kept from the store call before the latest
  instance,    \* ProjectState.instance and the exported projectState
  form         \* the form's inputs and its latest submit

vars ==
  <<heap, projects, listeners, lists, drag, notified, last, addCalls,
    registered, retained, instance, form>>

\* ------------------------------------------------------------- helpers
Range(s) == { s[i] : i \in 1..Len(s) }

Min(S) == CHOOSE x \in S : \A y \in S : x <= y

\* Array.prototype.slice(): a new array holding the same references.
slice(s) == [i \in 1..Len(s) |-> s[i]]

\* Array objects have identity: this.projects is one object for the
\* store's lifetime; every slice() allocates another, numbered within the
\* operation that allocates it. Arrays allocated by different operations
\* are different objects.
StoreArray == 0

\* The fields of the objects an array of references points at.
Contents(h, s) == [i \in 1..Len(s) |-> h[s[i]]]

\* ------------------------------------------------------------- models
\* new Project(id, title, description, people, status)
Project(id, title, description, people, status) ==
  [id |-> id, title |-> title, description |-> description,
   people |-> people, status |-> status]

\* this.type === "active" ? ProjectStatus.ACTIVE : ProjectStatus.FINISHED
StatusOf(type) == IF type = "active" THEN ACTIVE ELSE FINISHED

\* --------------------------------------------------------- list views
\* As NewList, with the store's current records assigned and rendered.
NewList_replayed ==
  [assignedProjects |-> projects, rendered |-> projects, droppable |-> FALSE]

\* The ProjectList fields the model follows: assignedProjects, the
\* ProjectItem children of its <ul> (each holds one Project reference) and
\* the "droppable" class of the <ul>.
NewList ==
  [assignedProjects |-> <<>>, rendered |-> <<>>, droppable |-> FALSE]

\* renderProjects(): empties the <ul>, then one ProjectItem per assigned
\* project, each inserted "beforeend".
renderProjects(list) == [list EXCEPT !.rendered = list.assignedProjects]

\* As isRelevant, without the branch on the view's type.
isRelevant_alwaysActive(type, p) == p.status = ACTIVE

\* The predicate of projects.filter(...) in the callback of the view of
\* this type.
isRelevant(type, p) ==
  IF type = "active" THEN p.status = ACTIVE ELSE p.status = FINISHED

\* projects.filter(...): the references that pass, in the array's order.
RECURSIVE relevantProjects(_, _, _)
relevantProjects(type, h, items) ==
  IF items = <<>> THEN <<>>
  ELSE IF isRelevant(type, h[Head(items)])
       THEN <<Head(items)>> \o relevantProjects(type, h, Tail(items))
       ELSE relevantProjects(type, h, Tail(items))

\* As listListener, adding the relevant projects to those assigned before.
listListener_appends(type, list, h, items) ==
  renderProjects(
    [list EXCEPT !.assignedProjects = @ \o relevantProjects(type, h, items)])

\* The callback configure() registers for the view of this type.
listListener(type, list, h, items) ==
  renderProjects(
    [list EXCEPT !.assignedProjects = relevantProjects(type, h, items)])

\* --------------------------------------------------------------- store
\* As addListener, skipping a callback that is registered already.
addListener_dedup(ls, listenerFn) ==
  IF listenerFn \in Range(ls) THEN ls ELSE Append(ls, listenerFn)

\* State.addListener
addListener(ls, listenerFn) == Append(ls, listenerFn)

\* updateListeners(): for (const listenerFn of this.listeners)
\*                      listenerFn(this.projects.slice());
\* The result is the views after all callbacks ran and the calls in order:
\* the callback, the array it was handed (its identity, its elements, the
\* records it showed) and the views marked droppable while it ran.
\* As updateListeners, iterating the registry from its end.
RECURSIVE updateListeners_reversed(_, _, _, _)
updateListeners_reversed(h, ps, ls, lsts) ==
  IF ls = <<>> THEN [lists |-> lsts, log |-> <<>>]
  ELSE LET listenerFn == ls[Len(ls)]
           items == slice(ps)
           after == [lsts EXCEPT
                       ![listenerFn] = listListener(listenerFn, @, h, items)]
           rest == updateListeners_reversed(h, ps, SubSeq(ls, 1, Len(ls) - 1),
                                            after)
       IN [lists |-> rest.lists,
           log |-> <<[fn |-> listenerFn, array |-> Len(ls), items |-> items,
                      seen |-> Contents(h, items),
                      droppable |-> { t \in DOMAIN lsts : lsts[t].droppable }]>>
                   \o rest.log]

\* As updateListeners, handing this.projects itself to every callback.
RECURSIVE updateListeners_noSlice(_, _, _, _)
updateListeners_noSlice(h, ps, ls, lsts) ==
  IF ls = <<>> THEN [lists |-> lsts, log |-> <<>>]
  ELSE LET listenerFn == Head(ls)
           after == [lsts EXCEPT
                       ![listenerFn] = listListener(listenerFn, @, h, ps)]
           rest == updateListeners_noSlice(h, ps, Tail(ls), after)
       IN [lists |-> rest.lists,
           log |-> <<[fn |-> listenerFn, array |-> StoreArray, items |-> ps,
                      seen |-> Contents(h, ps),
                      droppable |-> { t \in DOMAIN lsts : lsts[t].droppable }]>>
                   \o rest.log]

\* As updateListeners, with one slice() taken before the loop and handed to
\* every callback.
RECURSIVE updateListeners_sharedCopy(_, _, _, _)
updateListeners_sharedCopy(h, ps, ls, lsts) ==
  IF ls = <<>> THEN [lists |-> lsts, log |-> <<>>]
  ELSE LET listenerFn == Head(ls)
           items == slice(ps)
           after == [lsts EXCEPT
                       ![listenerFn] = listListener(listenerFn, @, h, items)]
           rest == updateListeners_sharedCopy(h, ps, Tail(ls), after)
       IN [lists |-> rest.lists,
           log |-> <<[fn |-> listenerFn, array |-> 1, items |-> items,
                      seen |-> Contents(h, items),
                      droppable |-> { t \in DOMAIN lsts : lsts[t].droppable }]>>
                   \o rest.log]

RECURSIVE updateListeners(_, _, _, _)
updateListeners(h, ps, ls, lsts) ==
  IF ls = <<>> THEN [lists |-> lsts, log |-> <<>>]
  ELSE LET listenerFn == Head(ls)
           items == slice(ps)
           after == [lsts EXCEPT
                       ![listenerFn] = listListener(listenerFn, @, h, items)]
           rest == updateListeners(h, ps, Tail(ls), after)
       IN [lists |-> rest.lists,
           log |-> <<[fn |-> listenerFn, array |-> Len(ls), items |-> items,
                      seen |-> Contents(h, items),
                      droppable |-> { t \in DOMAIN lsts : lsts[t].droppable }]>>
                   \o rest.log]

\* this.projects.find((p) => p.id === projectId): the index of the first
\* match, 0 for undefined.
find(h, ps, projectId) ==
  LET hits == { i \in 1..Len(ps) : h[ps[i]].id = projectId }
  IN IF hits = {} THEN 0 ELSE Min(hits)

\* As moveProject, with every record of that id moved (filter for find).
moveProject_all(h, ps, projectId, newStatus) ==
  LET hits == { ps[i] : i \in { j \in 1..Len(ps) : h[ps[j]].id = projectId } }
  IN IF \E r \in hits : h[r].status # newStatus
     THEN [heap |-> [r \in DOMAIN h |->
                       IF r \in hits THEN [h[r] EXCEPT !.status = newStatus]
                       ELSE h[r]],
           notify |-> TRUE, error |-> "none"]
     ELSE [heap |-> h, notify |-> FALSE, error |-> "none"]

\* As moveProject, without the `project &&` guard: reading .status of
\* undefined throws.
moveProject_unguarded(h, ps, projectId, newStatus) ==
  LET i == find(h, ps, projectId)
  IN IF i = 0 THEN [heap |-> h, notify |-> FALSE, error |-> "TypeError"]
     ELSE IF h[ps[i]].status # newStatus
     THEN [heap |-> [h EXCEPT ![ps[i]].status = newStatus],
           notify |-> TRUE, error |-> "none"]
     ELSE [heap |-> h, notify |-> FALSE, error |-> "none"]

\* As moveProject, without the comparison of the status.
moveProject_noCompare(h, ps, projectId, newStatus) ==
  LET i == find(h, ps, projectId)
  IN IF i # 0
     THEN [heap |-> [h EXCEPT ![ps[i]].status = newStatus],
           notify |-> TRUE, error |-> "none"]
     ELSE [heap |-> h, notify |-> FALSE, error |-> "none"]

\* moveProject up to its call of updateListeners: the heap afterwards,
\* whether updateListeners is called, and the exception thrown if any.
moveProject(h, ps, projectId, newStatus) ==
  LET i == find(h, ps, projectId)
  IN IF i # 0 /\ h[ps[i]].status # newStatus
     THEN [heap |-> [h EXCEPT ![ps[i]].status = newStatus],
           notify |-> TRUE, error |-> "none"]
     ELSE [heap |-> h, notify |-> FALSE, error |-> "none"]

\* moveProject as a whole: the mutation, then the notification.
moveProjectCall(h, ps, ls, lsts, projectId, newStatus) ==
  LET r == moveProject(h, ps, projectId, newStatus)
      n == IF r.notify THEN updateListeners(r.heap, ps, ls, lsts)
           ELSE [lists |-> lsts, log |-> <<>>]
  IN [heap |-> r.heap, lists |-> n.lists, log |-> n.log, error |-> r.error]

\* As addProject, assigning a one-element array instead of pushing.
addProject_replaces(h, ps, id, title, description, numOfPeople) ==
  LET ref == Len(h) + 1
      newProject == Project(id, title, description, numOfPeople, ACTIVE)
  IN [heap |-> Append(h, newProject), projects |-> <<ref>>]

\* As addProject, with unshift for push.
addProject_unshift(h, ps, id, title, description, numOfPeople) ==
  LET ref == Len(h) + 1
      newProject == Project(id, title, description, numOfPeople, ACTIVE)
  IN [heap |-> Append(h, newProject), projects |-> <<ref>> \o ps]

\* addProject up to its call of updateListeners: the new object and the
\* array after push.
addProject(h, ps, id, title, description, numOfPeople) ==
  LET ref == Len(h) + 1
      newProject == Project(id, title, description, numOfPeople, ACTIVE)
  IN [heap |-> Append(h, newProject), projects |-> Append(ps, ref)]

\* ------------------------------------------------------- drag transfer
\* DataTransfer.types: the declared types, in declaration order.
types(store) == [i \in 1..Len(store) |-> store[i].type]

\* DataTransfer.getData(format): the data of that type, "" when there is none.
getData(store, format) ==
  LET hits == { i \in 1..Len(store) : store[i].type = format }
  IN IF hits = {} THEN "" ELSE store[Min(hits)].data

\* DataTransfer.setData(format, data): replaces the item of that type or
\* appends a new one.
setData(store, format, data) ==
  IF format \in Range(types(store))
  THEN [i \in 1..Len(store) |->
          IF store[i].type = format THEN [type |-> format, data |-> data]
          ELSE store[i]]
  ELSE Append(store, [type |-> format, data |-> data])

\* No drag operation in progress.
NoDrag ==
  [active |-> FALSE, store |-> <<>>, effectAllowed |-> "uninitialized",
   source |-> 0, over |-> "none", allowed |-> FALSE]

\* As dragStartHandler, encoding the title for the id.
dragStartHandler_title(h, project) ==
  [store |-> setData(<<>>, "text/plain", h[project].title),
   effectAllowed |-> "move"]

\* ProjectItem.dragStartHandler of the item that holds Project `project`:
\* the DataTransfer after the handler, which the browser created empty.
dragStartHandler(h, project) ==
  [store |-> setData(<<>>, "text/plain", h[project].id),
   effectAllowed |-> "move"]

\* As dragOverAccepts, without the test of the declared type.
dragOverAccepts_any(store) == TRUE

\* The condition of ProjectList.dragOverHandler:
\* event.dataTransfer && event.dataTransfer.types[0] === "text/plain"
\* (types[0] of an empty list is undefined; the browser always supplies a
\* dataTransfer with its drag events).
dragOverAccepts(store) ==
  Len(types(store)) > 0 /\ types(store)[1] = "text/plain"

\* As dragOverHandler, without the type test and without preventDefault().
dragOverHandler_noPrevent(list, store) ==
  [list |-> [list EXCEPT !.droppable = TRUE], defaultPrevented |-> FALSE]

\* ProjectList.dragOverHandler: the view afterwards and whether
\* event.preventDefault() was called.
dragOverHandler(list, store) ==
  IF dragOverAccepts(store)
  THEN [list |-> [list EXCEPT !.droppable = TRUE], defaultPrevented |-> TRUE]
  ELSE [list |-> list, defaultPrevented |-> FALSE]

\* As dragLeaveHandler, without classList.remove.
dragLeaveHandler_noop(list) == list

\* ProjectList.dragLeaveHandler: classList.remove("droppable").
dragLeaveHandler(list) == [list EXCEPT !.droppable = FALSE]

\* As dropHandler, with classList.remove("droppable") before moveProject.
dropHandler_removesFirst(type, store, h, ps, ls, lsts) ==
  LET prjId == getData(store, "text/plain")
      newStatus == StatusOf(type)
      r == moveProjectCall(h, ps, ls,
                           [lsts EXCEPT ![type].droppable = FALSE],
                           prjId, newStatus)
  IN [heap |-> r.heap,
      lists |-> r.lists,
      log |-> r.log,
      calls |-> <<[id |-> prjId, status |-> newStatus]>>,
      error |-> r.error]

\* ProjectList.dropHandler of the view of this type: getData, moveProject
\* with the view's fixed status, then classList.remove("droppable").
dropHandler(type, store, h, ps, ls, lsts) ==
  LET prjId == getData(store, "text/plain")
      newStatus == StatusOf(type)
      r == moveProjectCall(h, ps, ls, lsts, prjId, newStatus)
  IN [heap |-> r.heap,
      lists |-> [r.lists EXCEPT ![type].droppable = FALSE],
      log |-> r.log,
      calls |-> <<[id |-> prjId, status |-> newStatus]>>,
      error |-> r.error]

\* The browser fires "drop" at a target only while the pointer is over it
\* and its latest "dragover" was cancelled with preventDefault().
PlatformDeliversDrop(type) ==
  drag.active /\ drag.over = type /\ drag.allowed

\* The browser suppresses mouse and keyboard input while a drag is in
\* progress, so no form submit and no other script runs until it ends.
Idle == ~drag.active

\* ------------------------------------------------------------ singleton
\* ProjectState.instance (undefined is 0), the number of ProjectState
\* objects constructed so far (the n-th is object n), the exported constant
\* projectState and what the latest getInstance() returned.
NoInstance == [static |-> 0, made |-> 0, projectState |-> 0, returned |-> 0]

\* As getInstance, without the test of this.instance.
getInstance_noCheck(st) ==
  [st EXCEPT !.static = st.made + 1, !.made = st.made + 1,
             !.returned = st.made + 1]

\* ProjectState.getInstance(): if (this.instance) return this.instance;
\* this.instance = new ProjectState(); return this.instance;
getInstance(st) ==
  IF st.static # 0 THEN [st EXCEPT !.returned = st.static]
  ELSE [st EXCEPT !.static = st.made + 1, !.made = st.made + 1,
                  !.returned = st.made + 1]

\* The exported constant projectState is initialised.
Loaded == instance.projectState # 0

\* ----------------------------------------------------------------- form
\* The three <input> values with nothing entered, and the history of the
\* latest submit: what was entered, whether alert() was raised and the
\* addProject calls made.
EmptyForm ==
  [title |-> "", description |-> "", people |-> "", entered |-> <<>>,
   alert |-> FALSE, calls |-> <<>>]

\* String.prototype.trim() on the texts entered here: the blank one
\* becomes empty, the others have no leading or trailing white space.
trim(text) ==
  IF text = "  " THEN "" ELSE text

\* +enteredPeople, the Number the unary plus makes of the input's text, in
\* tenths: +"" is 0, +"2.5" is 2.5.
ToNumber(text) ==
  CASE text = "" -> 0
    [] text = "0" -> 0
    [] text = "1" -> 10
    [] text = "2.5" -> 25
    [] text = "6" -> 60

\* The Number passed on as numOfPeople: an integer as such, any other
\* number by its whole part and its tenths.
numOfPeople(tenths) ==
  IF tenths % 10 = 0 THEN tenths \div 10
  ELSE [whole |-> tenths \div 10, tenths |-> tenths % 10]

\* validate(validatableInput): value is a string, or a Number in tenths;
\* a constraint the object does not carry is not a field of the record.
\* The text of a Number is never blank.
validate(v) ==
  LET isString == v.type = "string"
      c == DOMAIN v
  IN /\ ("required" \in c /\ v.required)
          => (IF isString THEN Len(trim(v.value)) # 0 ELSE TRUE)
     /\ ("minLength" \in c /\ isString) => Len(v.value) >= v.minLength
     /\ ("maxLength" \in c /\ isString) => Len(v.value) <= v.maxLength
     /\ ("min" \in c /\ ~isString) => v.value >= 10 * v.min
     /\ ("max" \in c /\ ~isString) => v.value <= 10 * v.max

\* gatherUserInput(): the tuple it returns (<<>> for undefined) and whether
\* it raised alert("Invalid input, please try again").
gatherUserInput(enteredTitle, enteredDescription, enteredPeople) ==
  LET titleValidatable ==
        [type |-> "string", value |-> enteredTitle, required |-> TRUE]
      descriptionValidatable ==
        [type |-> "string", value |-> enteredDescription, required |-> TRUE,
         minLength |-> MinDescription]
      peopleValidatable ==
        [type |-> "number", value |-> ToNumber(enteredPeople),
         required |-> TRUE, min |-> MinPeople, max |-> MaxPeople]
  IN IF \/ ~validate(titleValidatable)
        \/ ~validate(descriptionValidatable)
        \/ ~validate(peopleValidatable)
     THEN [userInput |-> <<>>, alert |-> TRUE]
     ELSE [userInput |-> <<enteredTitle, enteredDescription,
                           numOfPeople(ToNumber(enteredPeople))>>,
           alert |-> FALSE]

\* submitHandler: gatherUserInput, then for an array addProject (with its
\* notification) and clearInputs(). The result adds the inputs' values
\* afterwards and the addProject calls made.
submitHandler(h, ps, ls, lsts, id, title, description, people) ==
  LET g == gatherUserInput(title, description, people)
  IN IF g.userInput # <<>>
     THEN LET r == addProject(h, ps, id, g.userInput[1], g.userInput[2],
                              g.userInput[3])
              n == updateListeners(r.heap, r.projects, ls, lsts)
          IN [heap |-> r.heap, projects |-> r.projects, lists |-> n.lists,
              log |-> n.log, alert |-> g.alert,
              calls |-> <<g.userInput>>,
              title |-> "", description |-> "", people |-> ""]
     ELSE [heap |-> h, projects |-> ps, lists |-> lsts, log |-> <<>>,
           alert |-> g.alert, calls |-> <<>>,
           title |-> title, description |-> description, people |-> people]

\* ------------------------------------------------------------- history
\* A listener that keeps the array it is handed for as long as store calls
\* follow one another: the first call of the notification of the store
\* call before the latest, with the array's identity, its elements and the
\* records it showed when handed over.
Retain(log) ==
  IF log = <<>> THEN <<>>
  ELSE <<[array |-> log[1].array, items |-> log[1].items,
          seen |-> log[1].seen]>>

Op(name, view, calls, error, source) ==
  [op |-> name, view |-> view, calls |-> calls, error |-> error,
   source |-> source]

\* ---------------------------------------------------------------- Init
\* The classes are defined and project-state.ts has not yet run its last
\* line: ProjectState.instance is undefined, no store, no view, empty form.
Init ==
  /\ instance = NoInstance
  /\ form = EmptyForm
  /\ heap = <<>>
  /\ projects = <<>>
  /\ listeners = <<>>
  /\ lists = << >>
  /\ drag = NoDrag
  /\ notified = <<>>
  /\ last = Op("init", "none", <<>>, "none", 0)
  /\ addCalls = 0
  /\ registered = <<>>
  /\ retained = <<>>

\* ------------------------------------------------------------- actions
\* new ProjectList(type): assignedProjects = [], configure() registers the
\* callback, renderContent() names the <ul>.
NewProjectList(type) ==
  /\ Loaded
  /\ Idle
  /\ type \notin DOMAIN lists
  /\ Len(listeners) < MaxListeners
  /\ lists' = [t \in DOMAIN lists \cup {type} |->
                 IF t = type THEN NewList ELSE lists[t]]
  /\ listeners' = addListener(listeners, type)
  /\ notified' = <<>>
  /\ retained' = <<>>
  /\ last' = Op("newProjectList", type, <<>>, "none", 0)
  /\ registered' = Append(registered, type)
  /\ UNCHANGED <<instance, form>>
  /\ UNCHANGED <<heap, projects, drag, addCalls>>

\* projectState.addListener(fn) with a callback of an existing view.
AddListener(type) ==
  /\ Loaded
  /\ Idle
  /\ type \in DOMAIN lists
  /\ Len(listeners) < MaxListeners
  /\ listeners' = addListener(listeners, type)
  /\ notified' = <<>>
  /\ retained' = <<>>
  /\ last' = Op("addListener", type, <<>>, "none", 0)
  /\ registered' = Append(registered, type)
  /\ UNCHANGED <<instance, form>>
  /\ UNCHANGED <<heap, projects, lists, drag, addCalls>>

\* projectState.addProject(title, description, numOfPeople); id is what
\* Math.random().toString() returns.
AddProject(id, input) ==
  /\ Loaded
  /\ Idle
  /\ Len(projects) < MaxProjects
  /\ LET r == addProject(heap, projects, id, input[1], input[2], input[3])
         n == updateListeners(r.heap, r.projects, listeners, lists)
     IN /\ heap' = r.heap
        /\ projects' = r.projects
        /\ lists' = n.lists
        /\ notified' = n.log
        /\ retained' = Retain(notified)
  /\ addCalls' = addCalls + 1
  /\ last' = Op("addProject", "none", <<>>, "none", 0)
  /\ UNCHANGED <<instance, form>>
  /\ UNCHANGED <<listeners, drag, registered>>

\* projectState.moveProject(projectId, newStatus)
MoveProject(projectId, newStatus) ==
  /\ Loaded
  /\ Idle
  /\ LET r == moveProjectCall(heap, projects, listeners, lists,
                              projectId, newStatus)
     IN /\ heap' = r.heap
        /\ lists' = r.lists
        /\ notified' = r.log
        /\ retained' = Retain(notified)
        /\ last' = Op("moveProject", "none",
                      <<[id |-> projectId, status |-> newStatus]>>,
                      r.error, 0)
  /\ UNCHANGED <<instance, form>>
  /\ UNCHANGED <<projects, listeners, drag, addCalls, registered>>

\* "dragstart" on the k-th ProjectItem of a list view.
DragStart(type, k) ==
  /\ Loaded
  /\ Idle
  /\ type \in DOMAIN lists
  /\ k \in 1..Len(lists[type].rendered)
  /\ LET project == lists[type].rendered[k]
         dt == dragStartHandler(heap, project)
     IN /\ drag' = [NoDrag EXCEPT !.active = TRUE, !.store = dt.store,
                                  !.effectAllowed = dt.effectAllowed,
                                  !.source = project]
        /\ last' = Op("dragstart", type, <<>>, "none", project)
  /\ notified' = <<>>
  /\ retained' = <<>>
  /\ UNCHANGED <<instance, form>>
  /\ UNCHANGED <<heap, projects, listeners, lists, addCalls, registered>>

\* A drag that starts outside the application enters the page.
ForeignDragStart(payload) ==
  /\ Loaded
  /\ Idle
  /\ drag' = [NoDrag EXCEPT !.active = TRUE, !.store = payload,
                            !.effectAllowed = "all"]
  /\ notified' = <<>>
  /\ retained' = <<>>
  /\ last' = Op("foreigndrag", "none", <<>>, "none", 0)
  /\ UNCHANGED <<instance, form>>
  /\ UNCHANGED <<heap, projects, listeners, lists, addCalls, registered>>

\* "dragover" on a list view: the pointer is over it.
DragOver(type) ==
  /\ drag.active
  /\ type \in DOMAIN lists
  /\ drag.over \in {"none", type}
  /\ LET r == dragOverHandler(lists[type], drag.store)
     IN /\ lists' = [lists EXCEPT ![type] = r.list]
        /\ drag' = [drag EXCEPT !.over = type,
                                !.allowed = r.defaultPrevented]
  /\ notified' = <<>>
  /\ retained' = <<>>
  /\ last' = Op("dragover", type, <<>>, "none", drag.source)
  /\ UNCHANGED <<instance, form>>
  /\ UNCHANGED <<heap, projects, listeners, addCalls, registered>>

\* "dragleave" on a list view: the pointer left it.
DragLeave(type) ==
  /\ drag.active
  /\ drag.over = type
  /\ lists' = [lists EXCEPT ![type] = dragLeaveHandler(@)]
  /\ drag' = [drag EXCEPT !.over = "none", !.allowed = FALSE]
  /\ notified' = <<>>
  /\ retained' = <<>>
  /\ last' = Op("dragleave", type, <<>>, "none", drag.source)
  /\ UNCHANGED <<instance, form>>
  /\ UNCHANGED <<heap, projects, listeners, addCalls, registered>>

\* "drop" on a list view; the drag operation ends with it ("dragend" at
\* the source only logs).
Drop(type) ==
  /\ PlatformDeliversDrop(type)
  /\ LET r == dropHandler(type, drag.store, heap, projects, listeners, lists)
     IN /\ heap' = r.heap
        /\ lists' = r.lists
        /\ notified' = r.log
        /\ retained' = Retain(notified)
        /\ last' = Op("drop", type, r.calls, r.error, drag.source)
  /\ drag' = NoDrag
  /\ UNCHANGED <<instance, form>>
  /\ UNCHANGED <<projects, listeners, addCalls, registered>>

\* The drag ends without a drop (released where no drop is allowed, or
\* cancelled): "dragleave" at the view under the pointer, if any, then
\* "dragend" at the source, which only logs.
DragEnd ==
  /\ drag.active
  /\ lists' = IF drag.over = "none" THEN lists
              ELSE [lists EXCEPT ![drag.over] = dragLeaveHandler(@)]
  /\ drag' = NoDrag
  /\ notified' = <<>>
  /\ retained' = <<>>
  /\ last' = Op("dragend", drag.over, <<>>, "none", drag.source)
  /\ UNCHANGED <<instance, form>>
  /\ UNCHANGED <<heap, projects, listeners, addCalls, registered>>

\* export const projectState = ProjectState.getInstance(): the first call,
\* when the module is loaded. The store variables are the fields of the
\* instance this constant names.
Load ==
  /\ ~Loaded
  /\ LET r == getInstance(instance)
     IN instance' = [r EXCEPT !.projectState = r.returned]
  /\ notified' = <<>>
  /\ retained' = <<>>
  /\ last' = Op("load", "none", <<>>, "none", 0)
  /\ UNCHANGED <<form, heap, projects, listeners, lists, drag, addCalls,
                 registered>>

\* Any later call ProjectState.getInstance().
GetInstance ==
  /\ Loaded
  /\ Idle
  /\ instance.made < MaxInstances
  /\ instance' = getInstance(instance)
  /\ notified' = <<>>
  /\ retained' = <<>>
  /\ last' = Op("getInstance", "none", <<>>, "none", 0)
  /\ UNCHANGED <<form, heap, projects, listeners, lists, drag, addCalls,
                 registered>>

\* The user fills the three inputs and submits the form; id is what
\* Math.random().toString() returns if addProject is reached.
Submit(id, title, description, people) ==
  /\ Loaded
  /\ Idle
  /\ LET r == submitHandler(heap, projects, listeners, lists, id,
                            title, description, people)
     IN /\ r.calls # <<>> => Len(projects) < MaxProjects
        /\ heap' = r.heap
        /\ projects' = r.projects
        /\ lists' = r.lists
        /\ notified' = r.log
        /\ form' = [title |-> r.title, description |-> r.description,
                    people |-> r.people,
                    entered |-> <<title, description, people>>,
                    alert |-> r.alert, calls |-> r.calls]
        /\ addCalls' = addCalls + Len(r.calls)
  /\ retained' = Retain(notified)
  /\ last' = Op("submit", "none", <<>>, "none", 0)
  /\ UNCHANGED <<instance, listeners, drag, registered>>

Next ==
  \/ Load
  \/ GetInstance
  \/ \E type \in ListTypes : NewProjectList(type)
  \/ \E type \in ListTypes : AddListener(type)
  \/ \E id \in Ids, input \in Inputs : AddProject(id, input)
  \/ \E id \in Ids \cup {AbsentId}, s \in ProjectStatus : MoveProject(id, s)
  \/ \E type \in ListTypes, k \in 1..MaxProjects : DragStart(type, k)
  \/ \E payload \in ForeignPayloads : ForeignDragStart(payload)
  \/ \E type \in ListTypes : DragOver(type)
  \/ \E type \in ListTypes : DragLeave(type)
  \/ \E type \in ListTypes : Drop(type)
  \/ DragEnd

Spec == Init /\ [][Next]_vars

\* The page with its form and its list views, no drag and no direct store
\* call: what a user does with the form alone.
FormNext ==
  \/ Load
  \/ \E type \in ListTypes : NewProjectList(type)
  \/ \E id \in Ids, title \in Titles, description \in Descriptions,
       people \in PeopleTexts : Submit(id, title, description, people)

FormSpec == Init /\ [][FormNext]_vars

\* =============================================================== claims
\* What the formulas below say of a step, read off the history variables.

\* The step made a call moveProject(id, s): directly, or from dropHandler.
Called == last'.calls # <<>>
CallId == last'.calls[1].id
CallStatus == last'.calls[1].status

\* Positions of the store's records that carry this id before the step.
WithId(id) == { i \in 1..Len(projects) : heap[projects[i]].id = id }

\* The record an id denotes: the first in store order should several
\* records carry it.
Denoted(id) == Min(WithId(id))

\* The callbacks the step invoked, in invocation order.
Invoked(log) == [k \in 1..Len(log) |-> log[k].fn]

\* The store's records, as values, before and after the step.
Before == Contents(heap, projects)
After == Contents(heap', projects')

\* C1: the store holds as many records as addProject was called, and the
\* record an addProject call has just appended has status ACTIVE.
C1_AddProjectCountsAndActive ==
  /\ Len(projects) = addCalls
  /\ last.op = "addProject" =>
       /\ projects # <<>>
       /\ heap[projects[Len(projects)]].status = ACTIVE

C1_Witness ==
  /\ last.op = "addProject"
  /\ addCalls = 2
  /\ Len(projects) = 2

\* C2: moveProject(id, s) on a record that exists with a status other than
\* s sets that record's status to s and invokes every registered listener
\* once; each listener receives the store's content as it was before the
\* call with that one status replaced, and nothing else differs.
C2_MoveChangesOneStatusAndNotifiesAll ==
  [][ (Called /\ WithId(CallId) # {}
         /\ Before[Denoted(CallId)].status # CallStatus)
      => LET expected == [Before EXCEPT ![Denoted(CallId)].status = CallStatus]
         IN /\ After = expected
            /\ Invoked(notified') = registered
            /\ \A k \in 1..Len(notified') :
                 /\ notified'[k].seen = expected
                 /\ notified'[k].items = projects
    ]_vars

C2_Witness ==
  /\ last.op = "moveProject"
  /\ Len(notified) = 2
  /\ Len(projects) = 2
  /\ notified[1].seen[2].status = FINISHED
  /\ notified[1].seen[1].status = ACTIVE

\* C3: moveProject(id, s) with an id no record carries changes nothing:
\* the store keeps its records, no listener is invoked, no view changes
\* its items and no exception is thrown.
C3_MoveAbsentIdIsNoOp ==
  [][ (Called /\ WithId(CallId) = {})
      => /\ heap' = heap
         /\ projects' = projects
         /\ notified' = <<>>
         /\ last'.error = "none"
         /\ \A t \in DOMAIN lists :
              /\ lists'[t].assignedProjects = lists[t].assignedProjects
              /\ lists'[t].rendered = lists[t].rendered
    ]_vars

C3_Witness ==
  /\ last.op = "moveProject"
  /\ last.calls[1].id = AbsentId
  /\ Len(projects) = 2
  /\ listeners # <<>>
  /\ notified = <<>>

\* C4: moveProject(id, s) on a record whose status is s already changes
\* nothing and invokes no listener; and after any moveProject(id, s), the
\* same call made again changes nothing and invokes no listener.
C4_MoveIsIdempotent ==
  [][ Called
      => /\ (WithId(CallId) # {} /\ Before[Denoted(CallId)].status = CallStatus)
              => /\ heap' = heap
                 /\ projects' = projects
                 /\ notified' = <<>>
         /\ LET again == moveProjectCall(heap', projects', listeners', lists',
                                         CallId, CallStatus)
            IN /\ again.heap = heap'
               /\ again.log = <<>>
               /\ again.lists = lists'
    ]_vars

C4_Witness ==
  /\ last.op = "moveProject"
  /\ listeners # <<>>
  /\ notified = <<>>
  /\ \E i \in 1..Len(projects) :
       /\ heap[projects[i]].id = last.calls[1].id
       /\ heap[projects[i]].status = FINISHED
       /\ last.calls[1].status = FINISHED

\* C5: a step that changes the store (an addProject, or a moveProject that
\* changes a status) invokes the callbacks registered so far, each
\* registration once, in the order of the addListener calls.
C5_ListenersInRegistrationOrder ==
  [][ (heap' # heap \/ projects' # projects)
      => Invoked(notified') = registered
    ]_vars

C5_Witness ==
  /\ Invoked(notified) = <<"finished", "active">>
  /\ registered = <<"finished", "active">>

\* C6: a drop that ends a drag started on the item of record X calls
\* moveProject exactly once, with X's id and the status bound to the view
\* dropped on: ACTIVE for the active list, FINISHED for the finished list,
\* whatever X's status was.
C6_DropMovesDraggedRecordToTargetStatus ==
  (last.op = "drop" /\ last.source # 0)
  => /\ Len(last.calls) = 1
     /\ last.calls[1].id = heap[last.source].id
     /\ last.view = "active" => last.calls[1].status = ACTIVE
     /\ last.view = "finished" => last.calls[1].status = FINISHED

\* A card dropped on the list it is already in: the call is made all the
\* same, with the view's status.
C6_Witness ==
  /\ last.op = "drop"
  /\ last.source # 0
  /\ last.view = "finished"
  /\ last.calls = <<[id |-> heap[last.source].id, status |-> FINISHED]>>
  /\ notified = <<>>

\* C7: a drop calls moveProject only if, since the last drag-leave on that
\* target, a drag-over on it passed the target's gate (its payload's first
\* declared type is "text/plain"); after a drag-leave with no new accepted
\* drag-over no drop reaches moveProject.
C7_DropOnlyAfterAcceptedDragOver ==
  [][ (last'.op = "drop" /\ last'.calls # <<>>)
      => /\ drag.over = last'.view
         /\ types(drag.store) # <<>>
         /\ types(drag.store)[1] = "text/plain"
         /\ last.op = "dragover"
         /\ last.view = last'.view
    ]_vars

C7_Witness ==
  /\ last.op = "drop"
  /\ last.calls # <<>>
  /\ last.source = 0

\* C8 as stated: on drag-over, preventDefault is called and the droppable
\* affordance applied if and only if the payload declares "text/plain".
C8_AcceptsIffDeclaresTextPlain ==
  last.op = "dragover"
  => ((drag.allowed /\ lists[last.view].droppable)
        <=> "text/plain" \in Range(types(drag.store)))

\* C8 amended: on drag-over, preventDefault is called and the droppable
\* affordance applied if and only if the first type the payload declares
\* is "text/plain"; otherwise the handler does neither.
C8_AcceptsIffFirstTypeIsTextPlain ==
  [][ last'.op = "dragover"
      => LET view == last'.view
             first == IF types(drag.store) = <<>> THEN "none"
                      ELSE types(drag.store)[1]
         IN /\ drag'.allowed <=> first = "text/plain"
            /\ first = "text/plain" => lists'[view].droppable
            /\ first # "text/plain"
                 => lists'[view].droppable = lists[view].droppable
    ]_vars

\* A payload that declares text/plain, though not first, is not accepted.
C8_Witness ==
  /\ last.op = "dragover"
  /\ "text/plain" \in Range(types(drag.store))
  /\ types(drag.store)[1] # "text/plain"
  /\ ~drag.allowed
  /\ ~lists[last.view].droppable

\* C9: right after a notification, every list view's assignedProjects is
\* the subsequence of the snapshot it was handed whose status is the
\* view's partition, in the store's order.
C9_ViewsHoldTheirPartition ==
  notified # <<>>
  => \A t \in DOMAIN lists :
       /\ \E k \in 1..Len(notified) : notified[k].fn = t
       /\ \A k \in 1..Len(notified) :
         notified[k].fn = t
         => lists[t].assignedProjects =
              SelectSeq(notified[k].items,
                        LAMBDA p : heap[p].status =
                                     (IF t = "active" THEN ACTIVE
                                      ELSE FINISHED))

\* addProject A, addProject B, moveProject(idOfA, FINISHED): the active
\* view holds only B, the finished view only A.
C9_Witness ==
  /\ last.op = "moveProject"
  /\ notified # <<>>
  /\ DOMAIN lists = {"active", "finished"}
  /\ Len(projects) = 2
  /\ heap[projects[1]].title = "A" /\ heap[projects[1]].status = FINISHED
  /\ heap[projects[2]].title = "B" /\ heap[projects[2]].status = ACTIVE
  /\ lists["active"].assignedProjects = <<projects[2]>>
  /\ lists["finished"].assignedProjects = <<projects[1]>>

\* C10: no step removes or reorders records or changes a field other
\* than status: the store before a step is, status aside, a prefix of the
\* store after it, and a status changes only in a step that calls
\* moveProject.
C10_RecordsOnlyAppendedStatusOnlyMoved ==
  [][ /\ Len(projects') >= Len(projects)
      /\ \A i \in 1..Len(projects) :
           /\ After[i].id = Before[i].id
           /\ After[i].title = Before[i].title
           /\ After[i].description = Before[i].description
           /\ After[i].people = Before[i].people
           /\ After[i].status # Before[i].status => last'.calls # <<>>
    ]_vars

C10_Witness ==
  /\ last.op = "addProject"
  /\ Len(projects) = 2
  /\ heap[projects[1]].status = FINISHED
  /\ heap[projects[1]].title # heap[projects[2]].title

\* C11: the ids of the store's records are pairwise distinct, so an id
\* denotes at most one record.
C11_IdsPairwiseDistinct ==
  \A i, j \in 1..Len(projects) :
    heap[projects[i]].id = heap[projects[j]].id => i = j

\* The elements read now through an array handed out earlier: those of
\* this.projects if it is that very object, else the elements it was
\* created with (nothing in the program writes to a copy).
Deref(entry) == IF entry.array = StoreArray THEN projects ELSE entry.items

\* What a listener reads now through the array it kept.
RetainedNow == Contents(heap, Deref(retained[1]))

\* C12 (as stated): after a snapshot has been delivered, no later addProject
\* or moveProject changes what the retained snapshot contains, neither its
\* length nor the status of any record in it.
C12_RetainedSnapshotNeverChanges ==
  retained # <<>> => RetainedNow = retained[1].seen

\* C12 (amended): a retained snapshot keeps its length, its records and
\* their order, and every field of them but the status; it is a copy of the
\* array, not of the records.
C12_RetainedSnapshotKeepsLengthAndRecords ==
  retained # <<>>
    => /\ Len(RetainedNow) = Len(retained[1].seen)
       /\ Deref(retained[1]) = retained[1].items
       /\ \A i \in 1..Len(retained[1].seen) :
            [RetainedNow[i] EXCEPT !.status = retained[1].seen[i].status]
              = retained[1].seen[i]

\* A listener kept a two-record snapshot and the next operation was a
\* moveProject that changed a status: the snapshot shows the new status.
C12_Witness ==
  /\ retained # <<>>
  /\ Len(retained[1].items) = 2
  /\ last.op \in {"moveProject", "drop"}
  /\ notified # <<>>
  /\ \E i \in 1..2 : RetainedNow[i].status # retained[1].seen[i].status

\* The step is the handling of a submit of the form.
Submitted == last'.op = "submit"

\* What the claim asks of the entered texts: a title that is not empty, a
\* description of 5 characters or more, a people count that is an integer
\* in [1,5].
C13_Valid ==
  LET e == form'.entered
  IN /\ Len(e[1]) # 0
     /\ Len(e[2]) >= 5
     /\ ToNumber(e[3]) % 10 = 0
     /\ ToNumber(e[3]) \div 10 \in 1..5

\* C13: a submit calls addProject(title, description, peopleCount) exactly
\* once if and only if the title is non-empty, the description has length
\* at least 5 and the people count is an integer in [1,5]; on a validation
\* failure it raises the alert, makes no store call and leaves the store
\* and the views unchanged.
C13_SubmitCallsAddProjectIffValid ==
  [][ Submitted
      => /\ (Len(form'.calls) = 1) <=> C13_Valid
         /\ Len(form'.calls) <= 1
         /\ form'.calls # <<>>
              => /\ form'.calls[1][1] = form'.entered[1]
                 /\ form'.calls[1][2] = form'.entered[2]
                 /\ form'.calls[1][3] = ToNumber(form'.entered[3]) \div 10
                 /\ addCalls' = addCalls + 1
         /\ ~C13_Valid
              => /\ form'.alert
                 /\ heap' = heap
                 /\ projects' = projects
                 /\ lists' = lists
                 /\ notified' = <<>>
    ]_vars

\* The step is a call of ProjectState.getInstance().
GotInstance == last'.op \in {"load", "getInstance"}

\* C14: exactly one store instance exists: it is created by the first call
\* of getInstance() and by no other, it is never replaced, every call
\* returns it, and it is the instance the exported projectState names,
\* through which the views and the form reach the store.
C14_OneInstanceNeverReplaced ==
  [][ /\ instance.static = 0 => instance.made = 0
      /\ instance.static # 0
           => /\ instance'.static = instance.static
              /\ instance'.made = instance.made
      /\ GotInstance
           => /\ instance'.made = 1
              /\ instance'.returned = instance'.static
              /\ instance.static # 0 => instance'.returned = instance.static
      /\ Loaded' => instance'.projectState = instance'.static
      /\ (heap' # heap \/ projects' # projects \/ listeners' # listeners)
           => Loaded /\ instance'.projectState = instance.projectState
    ]_vars

\* getInstance() is called again when the store already holds records and
\* listeners, and returns the instance the module exported.
C14_Witness ==
  /\ last.op = "getInstance"
  /\ instance.made = 1
  /\ instance.returned = instance.projectState
  /\ Len(projects) = 2
  /\ listeners # <<>>

\* C15: when a drop changes a status, the change is made and every
\* registered listener has run, on the changed records, while the target
\* still shows the droppable affordance; when the handler returns every
\* subscribed view shows the new partition, the affordance is removed and
\* the drag is over. The step holds one moveProject call and the listener
\* calls, nothing else.
C15_NotificationCompletesBeforeDropReturns ==
  [][ (last'.op = "drop" /\ heap' # heap)
      => /\ last.op = "dragover"
         /\ Len(last'.calls) = 1
         /\ Invoked(notified') = listeners
         /\ \A k \in 1..Len(notified') :
              /\ notified'[k].seen = After
              /\ last'.view \in notified'[k].droppable
         /\ \A t \in Range(listeners) :
              /\ lists'[t].assignedProjects
                   = relevantProjects(t, heap', projects')
              /\ lists'[t].rendered = lists'[t].assignedProjects
         /\ ~lists'[last'.view].droppable
         /\ drag' = NoDrag
    ]_vars

\* A drop that moved a record with both views subscribed: both callbacks
\* ran while the target was marked, and it is unmarked now.
C15_Witness ==
  /\ last.op = "drop"
  /\ Len(notified) = 2
  /\ Range(Invoked(notified)) = ListTypes
  /\ \A k \in 1..2 : last.view \in notified[k].droppable
  /\ ~lists[last.view].droppable
  /\ \E i \in 1..Len(projects) :
       /\ heap[projects[i]].id = last.calls[1].id
       /\ heap[projects[i]].status = last.calls[1].status

\* What a listener can do to the array it was handed: empty it, push an
\* element again, reverse it.
Rewrites(items) ==
  { <<>>, items \o items, [i \in 1..Len(items) |-> items[Len(items) + 1 - i]] }

\* The elements read through array object `read` (holding `elements`)
\* after `written` was given the elements w: a write shows through the
\* same object and through no other.
ReadAfterWrite(read, elements, written, w) ==
  IF read = written THEN w ELSE elements

\* C16: every listener call receives an array of its own, a copy of the
\* store's sequence: whatever a listener writes to the array it received
\* (in this notification, or kept from the one before) leaves the store's
\* sequence and the array of every other call as they are, and the arrays
\* of this notification are copies of that unchanged sequence.
C16_EachCallGetsItsOwnCopy ==
  LET held == [k \in 1..Len(notified) |->
                 [array |-> notified[k].array, items |-> notified[k].items]]
  IN /\ \A k \in 1..Len(held) :
          /\ held[k].items = projects
          /\ \A w \in Rewrites(held[k].items) :
               /\ ReadAfterWrite(StoreArray, projects, held[k].array, w)
                    = projects
               /\ \A j \in 1..Len(held) :
                    j # k => ReadAfterWrite(held[j].array, held[j].items,
                                            held[k].array, w)
                               = held[j].items
     /\ (retained # <<>> /\ notified # <<>>)
          => \A w \in Rewrites(retained[1].items) :
               \A j \in 1..Len(held) :
                 held[j].items
                   = slice(ReadAfterWrite(StoreArray, projects,
                                          retained[1].array, w))

\* Two callbacks were handed a two-record array each, and one is kept
\* from the notification before.
C16_Witness ==
  /\ Len(notified) = 2
  /\ Len(projects) = 2
  /\ notified[1].array # notified[2].array
  /\ StoreArray \notin {notified[1].array, notified[2].array}
  /\ retained # <<>>

\* C17: a drag-leave and a drop on a view leave it unmarked, and a
\* drag-leave changes nothing of the store or of what the views show; a
\* view is marked droppable only while the latest event is a drag-over
\* delivered to it whose payload carries "text/plain".
C17_DroppableOnlyAfterAcceptedDragOver ==
  [][ /\ last'.op \in {"dragleave", "drop"}
           => ~lists'[last'.view].droppable
      /\ last'.op = "dragleave"
           => /\ heap' = heap
              /\ projects' = projects
              /\ listeners' = listeners
              /\ notified' = <<>>
              /\ \A t \in DOMAIN lists :
                   /\ lists'[t].assignedProjects = lists[t].assignedProjects
                   /\ lists'[t].rendered = lists[t].rendered
      /\ \A t \in DOMAIN lists' :
           lists'[t].droppable
             => /\ drag'.active
                /\ drag'.over = t
                /\ "text/plain" \in Range(types(drag'.store))
                /\ last'.op = "dragover"
                /\ last'.view = t
    ]_vars

\* The pointer left a view that an accepted drag-over had marked: the
\* view is unmarked and the drag goes on.
C17_Witness ==
  /\ last.op = "dragleave"
  /\ drag.active
  /\ dragOverAccepts(drag.store)
  /\ ~lists[last.view].droppable
  /\ projects # <<>>

\* How often fn occurs in a sequence of callbacks.
Count(fn, seq) == Cardinality({ i \in 1..Len(seq) : seq[i] = fn })

\* C18: the registry only grows, by one entry with every addListener call,
\* whether or not the callback is in it already; and every step that
\* changes the store invokes each callback as often as it has been
\* registered so far, so the number of invocations per mutation never goes
\* down.
C18_RegistryAppendOnlyNoDedup ==
  [][ /\ Len(listeners') >= Len(listeners)
      /\ SubSeq(listeners', 1, Len(listeners)) = listeners
      /\ Len(listeners') = Len(registered')
      /\ (heap' # heap \/ projects' # projects)
           => /\ Len(notified') = Len(registered)
              /\ \A fn \in ListTypes :
                   Count(fn, Invoked(notified')) = Count(fn, registered)
    ]_vars

\* The callback of the active view was registered twice and a change of
\* the store has invoked it twice.
C18_Witness ==
  /\ registered = <<"active", "active">>
  /\ Invoked(notified) = <<"active", "active">>
  /\ Len(projects) = 2

\* The view a record of this status belongs in.
HomeOf(status) == IF status = ACTIVE THEN "active" ELSE "finished"

\* Every record of the store is shown exactly once, in the view of its
\* status and not in the other, and the views show no record that is not
\* in the store: each view shows, without repetition, just the store's
\* records of its status.
InExactlyOneView(h, ps, lsts) ==
  \A t \in ListTypes :
    LET shown == lsts[t].rendered
        home == { ps[i] : i \in { j \in 1..Len(ps) :
                                   HomeOf(h[ps[j]].status) = t } }
    IN /\ Range(shown) = home
       /\ Len(shown) = Cardinality(home)
       /\ lsts[t].assignedProjects = shown

\* C19: when both list views were constructed before the first mutation,
\* then between operations every record of the store is in exactly one
\* view, that of its status, and the views show nothing else. Stated by
\* its steps: a step can end with both views and a record missing, doubled
\* or misplaced only if the store was mutated before the step and, before
\* the step, a view was missing or the views were off already.
C19_EveryRecordInExactlyOneView ==
  [][ (/\ DOMAIN lists' = ListTypes
       /\ ~InExactlyOneView(heap', projects', lists'))
      => /\ addCalls # 0
         /\ \/ DOMAIN lists # ListTypes
            \/ ~InExactlyOneView(heap, projects, lists)
    ]_vars

\* Both views are subscribed, one record was added and a drop has moved
\* it: the finished view shows it, the active view is empty.
C19_Witness ==
  /\ addCalls = 1
  /\ last.op = "drop"
  /\ Invoked(notified) \in {<<"active", "finished">>, <<"finished", "active">>}
  /\ retained = <<>>
  /\ lists["active"].rendered = <<>>
  /\ lists["finished"].rendered = projects

\* What the view of this type would show if it were refreshed now.
Filtered(t) == relevantProjects(t, heap, projects)

\* C20: a registration invokes no listener: a view constructed when the
\* store holds records starts with no items, an added listener is not
\* called, and the other views stay as they are; and a step that leaves
\* the store unchanged (a no-op moveProject among them) invokes no listener
\* and refreshes no view.
C20_RegistrationDeliversNothing ==
  [][ /\ last'.op \in {"newProjectList", "addListener"}
           => /\ notified' = <<>>
              /\ heap' = heap
              /\ projects' = projects
              /\ \A t \in DOMAIN lists : lists'[t] = lists[t]
              /\ last'.op = "newProjectList"
                   => /\ lists'[last'.view].assignedProjects = <<>>
                      /\ lists'[last'.view].rendered = <<>>
      /\ (heap' = heap /\ projects' = projects)
           => /\ notified' = <<>>
              /\ \A t \in DOMAIN lists :
                   /\ lists'[t].assignedProjects = lists[t].assignedProjects
                   /\ lists'[t].rendered = lists[t].rendered
    ]_vars

\* A view constructed after a record of its status was added is still
\* empty after a moveProject that changed nothing.
C20_Witness ==
  /\ last.op = "moveProject"
  /\ notified = <<>>
  /\ \E t \in DOMAIN lists :
       /\ t \in Range(listeners)
       /\ lists[t].rendered = <<>>
       /\ Filtered(t) # <<>>

====
